---- MODULE Spec2Model ----
(***************************************************************************)
(* Model of the smorrery backend (src/app.py) and of its texture           *)
(* downloader (src/static/SSS_downloader.py).                              *)
(*                                                                         *)
(*   Spec      the Flask handlers run one after another (no overlap),      *)
(*             plus a clean stop/start of the process                      *)
(*   SpecConc  two sbdb_query workers and one orrery worker interleave     *)
(*             at the granularity of their accesses to the shared slot     *)
(*             sbdb_data and to the file neo20.json                        *)
(*   SpecDL    one run of the texture downloader                           *)
(***************************************************************************)
EXTENDS Integers, Sequences, FiniteSets, TLC

\* ------------------------------------------------------------------ bounds
\* longest "data" array of a small-body (sbdb_query.api) response
MaxBodies == 1
\* longest "data" array of a close-approach (cad.api) response
MaxRows == 2

\* ------------------------------------------------- JSON values and JSON text
\* A Python value as json/jsonify see it: a tagged record [t, v].
Str(s) == [t |-> "str", v |-> s]
Arr(s) == [t |-> "arr", v |-> s]
\* a dict: the sequence of its <<key, value>> pairs in insertion order
Obj(s) == [t |-> "obj", v |-> s]
\* raw text (response.text), a sequence of tokens
Text(s) == [t |-> "text", v |-> s]
\* Python None (also what JSON null parses to)
None == [t |-> "null", v |-> <<>>]
\* json.load / response.json() raising json.JSONDecodeError
JSONDecodeError == [t |-> "JSONDecodeError", v |-> <<>>]

\* punctuation and string tokens of JSON text (whitespace carries no meaning)
P(c) == <<"p", c>>
S(s) == <<"s", s>>

RECURSIVE Dump(_)
RECURSIVE DumpItems(_, _)
RECURSIVE DumpPairs(_, _)
\* json.dump: the JSON text of a value, as a token sequence
Dump(j) ==
    CASE j.t = "str"  -> << S(j.v) >>
      [] j.t = "null" -> << P("null") >>
      [] j.t = "arr"  -> << P("[") >> \o DumpItems(j.v, 1) \o << P("]") >>
      [] j.t = "obj"  -> << P("{") >> \o DumpPairs(j.v, 1) \o << P("}") >>
DumpItems(s, i) ==
    IF i > Len(s) THEN <<>>
    ELSE Dump(s[i]) \o (IF i < Len(s) THEN << P(",") >> ELSE <<>>) \o DumpItems(s, i + 1)
DumpPairs(s, i) ==
    IF i > Len(s) THEN <<>>
    ELSE << S(s[i][1]), P(":") >> \o Dump(s[i][2])
         \o (IF i < Len(s) THEN << P(",") >> ELSE <<>>) \o DumpPairs(s, i + 1)

\* dict.get(key, default) on an Obj
RECURSIVE GetFrom(_, _, _, _)
GetFrom(pairs, key, default, i) ==
    IF i > Len(pairs) THEN default
    ELSE IF pairs[i][1] = key THEN pairs[i][2]
    ELSE GetFrom(pairs, key, default, i + 1)
Get(obj, key, default) == GetFrom(obj.v, key, default, 1)

\* all sequences over S of length 0..n
SeqUpTo(X, n) == UNION { [1..k -> X] : k \in 0..n }

\* ------------------------------------------------------ upstream responses
\* the literal 200 both handlers compare response.status_code with
HTTP_OK == 200

\* rows of the small-body query (full_name, e): opaque to the backend
BodyRows == { Arr(<<Str("433 Eros"), Str("0.22")>>),
              Arr(<<Str("1036 Ganymed"), Str("0.53")>>) }
BodyDoc(rows) == Obj(<< <<"data", Arr(rows)>> >>)
BodyDocs == { BodyDoc(r) : r \in SeqUpTo(BodyRows, MaxBodies) }

\* rows of cad.api in its documented column order:
\* des, orbit_id, jd, cd, dist, dist_min
CadRows == { Arr(<<Str("2023 AB"), Str("12"), Str("2460310.5"),
                   Str("2024-01-01"), Str("0.02"), Str("0.019")>>),
             Arr(<<Str("2024 XY"), Str("3"), Str("2460401.5"),
                   Str("2024-04-01"), Str("0.04"), Str("0.039")>>) }
\* with no match cad.api answers 200 with a count and no "data" key
CadEmpty == Obj(<< <<"count", Str("0")>> >>)
CadDoc(rows) == Obj(<< <<"count", Str("n")>>, <<"data", Arr(rows)>> >>)
CadDocs == { CadDoc(r) : r \in SeqUpTo(CadRows, MaxRows) \ {<<>>} } \cup {CadEmpty}

JsonDocs == BodyDocs \cup CadDocs

\* the JSON texts of the values above, each with the value it is the text of
JsonTexts == { Dump(d) : d \in JsonDocs }
Parsed == [text \in JsonTexts |-> CHOOSE d \in JsonDocs : Dump(d) = text]

\* json.load / response.json(): the value whose JSON text this is, and a
\* JSONDecodeError for text that is the JSON text of no value (empty,
\* truncated, or followed by extra data)
Load(text) == IF text \in JsonTexts THEN Parsed[text] ELSE JSONDecodeError

ErrStatuses == {404, 503}
ErrTexts == { << S("bad request") >>, Dump(CadEmpty) }
Response(st, tx) == [status |-> st, text |-> tx, exc |-> "none"]
OkBodies == { Response(HTTP_OK, Dump(d)) : d \in BodyDocs }
OkCad == { Response(HTTP_OK, Dump(d)) : d \in CadDocs }
ErrResponses == { Response(st, tx) : st \in ErrStatuses, tx \in ErrTexts }
\* requests.get raising (timeout, DNS, connection refused): no response
TransportErrors == { [status |-> 0, text |-> <<>>, exc |-> e] :
                       e \in {"ConnectionError", "Timeout"} }

\* ------------------------------------------------------------------ files
\* a file of the working directory: absent, or its text
Missing == [exists |-> FALSE, content |-> <<>>]
File(text) == [exists |-> TRUE, content |-> text]
\* open(name, 'w'): creates or truncates
OpenW(f) == File(<<>>)
\* flushing n tokens of text at offset 0 through a handle opened with 'w':
\* the bytes beyond the written ones stay as they are
WriteAt0(f, text) ==
    File(text \o (IF Len(f.content) > Len(text)
                  THEN SubSeq(f.content, Len(text) + 1, Len(f.content))
                  ELSE <<>>))
\* with open(name, 'w') as f: json.dump(value, f, indent=4)
\* (the mutant opens without truncating, as mode 'r+' would)
DumpToFile_NoTruncate(f, value) == WriteAt0(f, Dump(value))
DumpToFile(f, value) == WriteAt0(OpenW(f), Dump(value))

\* ---------------------------------------------------------------- results
\* what a handler hands to Flask
Json(body, status) == [kind |-> "json", status |-> status, body |-> body]
Page(template, data) ==
    [kind |-> "page", status |-> HTTP_OK, body |-> [t |-> template, v |-> data]]
\* an exception nobody catches leaves the view: Flask answers 500
Unhandled(exc) == [kind |-> "unhandled", status |-> 500, body |-> Str(exc)]
Envelope(r) ==
    Obj(<< <<"error", Str("Unable to fetch data")>>, <<"details", Text(r.text)>> >>)
\* the else branch of both query handlers; the mutant forgets the status
ErrorReply_DefaultStatus(r) == Json(Envelope(r), HTTP_OK)
ErrorReply(r) == Json(Envelope(r), r.status)
NoData == Obj(<< <<"error", Str("No data available")>> >>)
\* no handler has run in this process yet
NoResult == [kind |-> "none", status |-> 0, body |-> None]

\* the close-approach projection of one row and of the "data" array
\* (the mutant reads the date one column early)
ProjectRow_WrongColumn(item) ==
    Obj(<< <<"des", item.v[1]>>, <<"cd", item.v[3]>>, <<"dist", item.v[5]>> >>)
ProjectRow(item) ==
    Obj(<< <<"des", item.v[1]>>, <<"cd", item.v[4]>>, <<"dist", item.v[5]>> >>)
Project(data) ==
    Arr([i \in 1..Len(Get(data, "data", Arr(<<>>)).v) |->
            ProjectRow(Get(data, "data", Arr(<<>>)).v[i])])

VARIABLES
    sbdb_data,      \* the global slot of app.py
    sbdb_CA_data,   \* the global the close-approach handler assigns
    neo20,          \* the file neo20.json
    neoCA,          \* the file neoCA.json
    fetched,        \* history: the body of the latest 200 answer to sbdb_query
    last,           \* history: the handler that ran last, its input and result
    th,             \* SpecConc: each worker's place in its handler and its locals
    wrote,          \* SpecConc history: who assigned the slot / flushed the file last
    dl              \* SpecDL: the downloader's run

vars == <<sbdb_data, sbdb_CA_data, neo20, neoCA, fetched, last, th, wrote, dl>>
seqVars == <<sbdb_data, sbdb_CA_data, neo20, neoCA, fetched, last>>
concVars == <<th, wrote>>
serverVars == <<seqVars, concVars>>

Snapshot == [sbdb_data |-> sbdb_data, sbdb_CA_data |-> sbdb_CA_data,
             neo20 |-> neo20, neoCA |-> neoCA, fetched |-> fetched]
Ran(op, up, result) == [op |-> op, up |-> up, result |-> result, pre |-> Snapshot]
NoUp == Response(0, <<>>)

\* the workers of SpecConc: two serve /api/sbdb_query, one serves /orrery
QueryWorkers == {"q1", "q2"}
ViewWorker == "v"
Workers == QueryWorkers \cup {ViewWorker}
\* requests each worker serves
MaxCalls == 2
Idle == [pc |-> "idle", up |-> NoUp, val |-> None, buf |-> <<>>,
         result |-> NoResult, n |-> 0]

\* the downloader before main() runs
Stopped == [pc |-> "stopped", paths_only |-> FALSE, i |-> 1,
            local_texture_paths |-> <<>>, requested |-> <<>>, log |-> <<>>,
            printed |-> <<>>]

ServerInit ==
    /\ th = [w \in Workers |-> Idle]
    /\ wrote = [slot |-> "none", file |-> "none"]
    /\ sbdb_data = None
    /\ sbdb_CA_data = None
    /\ neo20 = Missing
    /\ neoCA = Missing
    /\ fetched = None
    /\ last = [op |-> "start", up |-> NoUp, result |-> NoResult,
               pre |-> [sbdb_data |-> None, sbdb_CA_data |-> None, neo20 |-> Missing,
                        neoCA |-> Missing, fetched |-> None]]

Init == ServerInit /\ dl = Stopped

\* GET /api/sbdb_query, run to its end
\* (the mutant drops the cached value when the fetch fails)
SbdbQuery_ClearsOnFailure(up) ==
    IF up.exc # "none"
    THEN /\ last' = Ran("sbdb_query", up, Unhandled(up.exc))
         /\ UNCHANGED <<sbdb_data, sbdb_CA_data, neo20, neoCA, fetched>>
    ELSE IF up.status = HTTP_OK
    THEN /\ sbdb_data' = Load(up.text)
         /\ neo20' = DumpToFile(neo20, sbdb_data')
         /\ fetched' = Load(up.text)
         /\ last' = Ran("sbdb_query", up, Json(sbdb_data', HTTP_OK))
         /\ UNCHANGED <<sbdb_CA_data, neoCA>>
    ELSE /\ sbdb_data' = None
         /\ last' = Ran("sbdb_query", up, ErrorReply(up))
         /\ UNCHANGED <<sbdb_CA_data, neo20, neoCA, fetched>>
SbdbQuery(up) ==
    IF up.exc # "none"
    THEN /\ last' = Ran("sbdb_query", up, Unhandled(up.exc))
         /\ UNCHANGED <<sbdb_data, sbdb_CA_data, neo20, neoCA, fetched>>
    ELSE IF up.status = HTTP_OK
    THEN /\ sbdb_data' = Load(up.text)
         /\ neo20' = DumpToFile(neo20, sbdb_data')
         /\ fetched' = Load(up.text)
         /\ last' = Ran("sbdb_query", up, Json(sbdb_data', HTTP_OK))
         /\ UNCHANGED <<sbdb_CA_data, neoCA>>
    ELSE /\ last' = Ran("sbdb_query", up, ErrorReply(up))
         /\ UNCHANGED <<sbdb_data, sbdb_CA_data, neo20, neoCA, fetched>>

\* GET /api/sbdb_CA_query, run to its end
\* (the mutant opens neoCA.json before it looks at the status)
SbdbCAQuery_OpensFirst(up) ==
    IF up.exc # "none"
    THEN /\ last' = Ran("sbdb_CA_query", up, Unhandled(up.exc))
         /\ UNCHANGED <<sbdb_data, sbdb_CA_data, neo20, neoCA, fetched>>
    ELSE IF up.status = HTTP_OK
    THEN /\ sbdb_CA_data' = Project(Load(up.text))
         /\ neoCA' = DumpToFile(neoCA, sbdb_CA_data')
         /\ last' = Ran("sbdb_CA_query", up, Json(sbdb_CA_data', HTTP_OK))
         /\ UNCHANGED <<sbdb_data, neo20, fetched>>
    ELSE /\ neoCA' = OpenW(neoCA)
         /\ last' = Ran("sbdb_CA_query", up, ErrorReply(up))
         /\ UNCHANGED <<sbdb_data, sbdb_CA_data, neo20, fetched>>
SbdbCAQuery(up) ==
    IF up.exc # "none"
    THEN /\ last' = Ran("sbdb_CA_query", up, Unhandled(up.exc))
         /\ UNCHANGED <<sbdb_data, sbdb_CA_data, neo20, neoCA, fetched>>
    ELSE IF up.status = HTTP_OK
    THEN /\ sbdb_CA_data' = Project(Load(up.text))
         /\ neoCA' = DumpToFile(neoCA, sbdb_CA_data')
         /\ last' = Ran("sbdb_CA_query", up, Json(sbdb_CA_data', HTTP_OK))
         /\ UNCHANGED <<sbdb_data, neo20, fetched>>
    ELSE /\ last' = Ran("sbdb_CA_query", up, ErrorReply(up))
         /\ UNCHANGED <<sbdb_data, sbdb_CA_data, neo20, neoCA, fetched>>

\* GET /orrery, run to its end
Orrery ==
    IF sbdb_data # None
    THEN /\ last' = Ran("orrery", NoUp, Page("orrery.html", sbdb_data))
         /\ UNCHANGED <<sbdb_data, sbdb_CA_data, neo20, neoCA, fetched>>
    ELSE IF ~neo20.exists
    THEN /\ last' = Ran("orrery", NoUp, Json(NoData, HTTP_OK))
         /\ UNCHANGED <<sbdb_data, sbdb_CA_data, neo20, neoCA, fetched>>
    ELSE IF Load(neo20.content) = JSONDecodeError
    THEN /\ last' = Ran("orrery", NoUp, Unhandled("JSONDecodeError"))
         /\ UNCHANGED <<sbdb_data, sbdb_CA_data, neo20, neoCA, fetched>>
    ELSE /\ sbdb_data' = Load(neo20.content)
         /\ last' = Ran("orrery", NoUp, Page("orrery.html", sbdb_data'))
         /\ UNCHANGED <<sbdb_CA_data, neo20, neoCA, fetched>>

\* the process is stopped and started again: the module body runs anew,
\* the files of the working directory stay
Restart ==
    /\ sbdb_data' = None
    /\ sbdb_CA_data' = None
    /\ last' = Ran("restart", NoUp, NoResult)
    /\ UNCHANGED <<neo20, neoCA, fetched>>

\* the process is stopped while sbdb_query is inside its with block (lines
\* 51-52): open has truncated neo20.json and the buffered dump never
\* reaches it; the next process starts with an empty slot
StopDuringDump(up) ==
    /\ up.exc = "none" /\ up.status = HTTP_OK
    /\ sbdb_data' = None
    /\ sbdb_CA_data' = None
    /\ neo20' = OpenW(neo20)
    /\ fetched' = Load(up.text)
    /\ last' = Ran("stopped", up, NoResult)
    /\ UNCHANGED neoCA

Next ==
    \/ \E up \in OkBodies \cup ErrResponses \cup TransportErrors :
          SbdbQuery(up) /\ UNCHANGED <<concVars, dl>>
    \/ \E up \in OkBodies : StopDuringDump(up) /\ UNCHANGED <<concVars, dl>>
    \/ \E up \in OkCad \cup ErrResponses \cup TransportErrors :
          SbdbCAQuery(up) /\ UNCHANGED <<concVars, dl>>
    \/ Orrery /\ UNCHANGED <<concVars, dl>>
    \/ Restart /\ UNCHANGED <<concVars, dl>>

Spec == Init /\ [][Next]_vars

\* ------------------------------------------------ overlapping handlers
\* One step is one access to sbdb_data or to neo20.json; what a handler
\* does between two accesses touches only its own locals.
At(w, pc) == th[w].pc = pc
Goto(w, pc) == [th EXCEPT ![w].pc = pc]
Finish(w, result) == [th EXCEPT ![w].pc = "done", ![w].result = result]

\* sbdb_query, lines 45-48 and 55-57: the answer arrives; on 200 the global
\* is assigned
QFetch(w, up) ==
    /\ th[w].pc \in {"idle", "done"}
    /\ th[w].n < MaxCalls
    /\ IF up.exc # "none"
       THEN /\ th' = [th EXCEPT ![w] = [Idle EXCEPT !.pc = "done", !.up = up,
                          !.n = th[w].n + 1, !.result = Unhandled(up.exc)]]
            /\ UNCHANGED <<sbdb_data, wrote>>
       ELSE IF up.status = HTTP_OK
       THEN /\ sbdb_data' = Load(up.text)
            /\ th' = [th EXCEPT ![w] = [Idle EXCEPT !.pc = "assigned", !.up = up,
                          !.n = th[w].n + 1]]
            /\ wrote' = [wrote EXCEPT !.slot = w]
       ELSE /\ th' = [th EXCEPT ![w] = [Idle EXCEPT !.pc = "done", !.up = up,
                          !.n = th[w].n + 1, !.result = ErrorReply(up)]]
            /\ UNCHANGED <<sbdb_data, wrote>>
    /\ UNCHANGED <<sbdb_CA_data, neo20, neoCA, fetched, last, dl>>

\* line 51: open('neo20.json', 'w') creates or truncates the file
QOpen(w) ==
    /\ At(w, "assigned")
    /\ neo20' = OpenW(neo20)
    /\ th' = Goto(w, "opened")
    /\ UNCHANGED <<sbdb_data, sbdb_CA_data, neoCA, fetched, last, wrote, dl>>

\* line 52: json.dump reads the global and fills the handle's buffer
QDump(w) ==
    /\ At(w, "opened")
    /\ th' = [th EXCEPT ![w].pc = "dumped", ![w].buf = Dump(sbdb_data)]
    /\ UNCHANGED <<seqVars, wrote, dl>>

\* leaving the with block: the buffer is flushed at the handle's offset 0
QClose(w) ==
    /\ At(w, "dumped")
    /\ neo20' = WriteAt0(neo20, th[w].buf)
    /\ th' = Goto(w, "closed")
    /\ wrote' = [wrote EXCEPT !.file = w]
    /\ UNCHANGED <<sbdb_data, sbdb_CA_data, neoCA, fetched, last, dl>>

\* line 54: jsonify reads the global again
QReturn(w) ==
    /\ At(w, "closed")
    /\ th' = Finish(w, Json(sbdb_data, HTTP_OK))
    /\ UNCHANGED <<seqVars, wrote, dl>>

\* orrery, line 104
VCheck(w) ==
    /\ th[w].pc \in {"idle", "done"}
    /\ th[w].n < MaxCalls
    /\ th' = [th EXCEPT ![w] = [Idle EXCEPT !.n = th[w].n + 1,
                  !.pc = IF sbdb_data = None THEN "open" ELSE "render"]]
    /\ UNCHANGED <<seqVars, wrote, dl>>

\* line 106: open('neo20.json', 'r'); FileNotFoundError is caught (108-109)
VOpen(w) ==
    /\ At(w, "open")
    /\ th' = IF neo20.exists THEN Goto(w, "read") ELSE Finish(w, Json(NoData, HTTP_OK))
    /\ UNCHANGED <<seqVars, wrote, dl>>

\* line 107, right-hand side: json.load reads the whole file and parses it;
\* a JSONDecodeError is not caught
VRead(w) ==
    /\ At(w, "read")
    /\ th' = IF Load(neo20.content) = JSONDecodeError
             THEN Finish(w, Unhandled("JSONDecodeError"))
             ELSE [th EXCEPT ![w].pc = "loaded", ![w].val = Load(neo20.content)]
    /\ UNCHANGED <<seqVars, wrote, dl>>

\* line 107, the assignment to the global
VAssign(w) ==
    /\ At(w, "loaded")
    /\ sbdb_data' = th[w].val
    /\ th' = Goto(w, "render")
    /\ wrote' = [wrote EXCEPT !.slot = w]
    /\ UNCHANGED <<sbdb_CA_data, neo20, neoCA, fetched, last, dl>>

\* line 111: the page gets the global
VRender(w) ==
    /\ At(w, "render")
    /\ th' = Finish(w, Page("orrery.html", sbdb_data))
    /\ UNCHANGED <<seqVars, wrote, dl>>

NextConc ==
    \/ \E w \in QueryWorkers :
          \/ \E up \in OkBodies \cup ErrResponses \cup TransportErrors : QFetch(w, up)
          \/ QOpen(w)
          \/ QDump(w)
          \/ QClose(w)
          \/ QReturn(w)
    \/ VCheck(ViewWorker)
    \/ VOpen(ViewWorker)
    \/ VRead(ViewWorker)
    \/ VAssign(ViewWorker)
    \/ VRender(ViewWorker)

SpecConc == Init /\ [][NextConc]_vars

\* ------------------------------------------------- the texture downloader
\* Strings the script takes apart or puts together are sequences of
\* characters.
TEXTURE_DIR == <<".", "/", "t", "e", "x", "t", "u", "r", "e", "s">>
URL_PREFIX_1 ==
    <<"h", "t", "t", "p", "s", ":", "/", "/", "w", "w", "w", ".", "s", "o", "l", "a", "r", "s", "y", "s", "t", "e", "m", "s", "c", "o", "p", "e", ".", "c", "o", "m", "/", "t", "e", "x", "t", "u", "r", "e", "s", "/", "d", "o", "w", "n", "l", "o", "a", "d", "/">>
\* the dict literal, in its (insertion) order: <<name, filename>>
SSS_TEXTURES == <<
    <<"SUN",
      <<"2", "k", "_", "s", "u", "n", ".", "j", "p", "g">>>>,
    <<"MERCURY",
      <<"2", "k", "_", "m", "e", "r", "c", "u", "r", "y", ".", "j", "p", "g">>>>,
    <<"VENUS",
      <<"2", "k", "_", "v", "e", "n", "u", "s", "_", "s", "u", "r", "f", "a", "c", "e", ".", "j", "p", "g">>>>,
    <<"EARTH",
      <<"2", "k", "_", "e", "a", "r", "t", "h", "_", "d", "a", "y", "m", "a", "p", ".", "j", "p", "g">>>>,
    <<"MOON",
      <<"2", "k", "_", "m", "o", "o", "n", ".", "j", "p", "g">>>>,
    <<"MARS",
      <<"2", "k", "_", "m", "a", "r", "s", ".", "j", "p", "g">>>>,
    <<"JUPITER",
      <<"2", "k", "_", "j", "u", "p", "i", "t", "e", "r", ".", "j", "p", "g">>>>,
    <<"SATURN",
      <<"2", "k", "_", "s", "a", "t", "u", "r", "n", ".", "j", "p", "g">>>>,
    <<"SATURN_RING",
      <<"2", "k", "_", "s", "a", "t", "u", "r", "n", "_", "r", "i", "n", "g", "_", "a", "l", "p", "h", "a", ".", "j", "p", "g">>>>,
    <<"URANUS",
      <<"2", "k", "_", "u", "r", "a", "n", "u", "s", ".", "j", "p", "g">>>>,
    <<"NEPTUNE",
      <<"2", "k", "_", "n", "e", "p", "t", "u", "n", "e", ".", "j", "p", "g">>>>,
    <<"MILKY_WAY",
      <<"2", "k", "_", "s", "t", "a", "r", "s", "_", "m", "i", "l", "k", "y", "_", "w", "a", "y", ".", "j", "p", "g">>>> >>

StartsWith(s, pre) == Len(s) >= Len(pre) /\ SubSeq(s, 1, Len(pre)) = pre
\* str.replace(old, new): every occurrence, left to right, not overlapping
RECURSIVE Replace(_, _, _)
Replace(s, old, new) ==
    IF Len(s) < Len(old) THEN s
    ELSE IF StartsWith(s, old)
    THEN new \o Replace(SubSeq(s, Len(old) + 1, Len(s)), old, new)
    ELSE <<s[1]>> \o Replace(Tail(s), old, new)
\* os.path.join of two parts (posix)
PathJoin(a, b) ==
    IF StartsWith(b, <<"/">>) THEN b
    ELSE IF a = <<>> \/ a[Len(a)] = "/" THEN a \o b
    ELSE a \o <<"/">> \o b
\* what main() stores for a file of the textures folder (lines 86-87, 94);
\* the mutant forgets the folder
LocalPath_NoDir(filename) == Replace(filename, <<".", "/">>, <<>>)
LocalPath(filename) == Replace(PathJoin(TEXTURE_DIR, filename), <<".", "/">>, <<>>)
\* the line generate_js_object prints for one entry: {name}: "../{path}",
JsLine(entry) == <<entry[1], <<".", ".", "/">> \o entry[2]>>
\* what requests.get / raise_for_status / iter_content can raise, all of
\* them requests.exceptions.RequestException
RequestExceptions == {"ConnectionError", "HTTPError", "ChunkedEncodingError"}
Outcomes == {"ok"} \cup RequestExceptions

InitDL ==
    /\ ServerInit
    /\ dl \in { [Stopped EXCEPT !.pc = "loop", !.paths_only = m] : m \in BOOLEAN }

\* lines 85-87: one turn of the loop under --paths-only
PathsOnlyStep ==
    /\ dl.pc = "loop" /\ dl.paths_only /\ dl.i <= Len(SSS_TEXTURES)
    /\ dl' = [dl EXCEPT !.i = dl.i + 1,
                !.local_texture_paths =
                    Append(@, <<SSS_TEXTURES[dl.i][1], LocalPath(SSS_TEXTURES[dl.i][2])>>)]
    /\ UNCHANGED serverVars

\* lines 90-94 with download_image (32-57): one turn of the download loop.
\* outcome is what the network does to this file.
DownloadStep_AbortsOnFailure(outcome) ==
    /\ dl.pc = "loop" /\ ~dl.paths_only /\ dl.i <= Len(SSS_TEXTURES)
    /\ dl' = [dl EXCEPT
                !.i = IF outcome = "ok" THEN dl.i + 1 ELSE Len(SSS_TEXTURES) + 1,
                !.requested = Append(@, URL_PREFIX_1 \o SSS_TEXTURES[dl.i][2]),
                !.log = Append(@, <<SSS_TEXTURES[dl.i][1],
                                    IF outcome = "ok" THEN "downloaded" ELSE "error">>),
                !.local_texture_paths =
                    IF outcome = "ok"
                    THEN Append(@, <<SSS_TEXTURES[dl.i][1],
                                     LocalPath(SSS_TEXTURES[dl.i][2])>>)
                    ELSE @]
    /\ UNCHANGED serverVars
DownloadStep(outcome) ==
    /\ dl.pc = "loop" /\ ~dl.paths_only /\ dl.i <= Len(SSS_TEXTURES)
    /\ dl' = [dl EXCEPT
                !.i = dl.i + 1,
                !.requested = Append(@, URL_PREFIX_1 \o SSS_TEXTURES[dl.i][2]),
                !.log = Append(@, <<SSS_TEXTURES[dl.i][1],
                                    IF outcome = "ok" THEN "downloaded" ELSE "error">>),
                !.local_texture_paths =
                    IF outcome = "ok"
                    THEN Append(@, <<SSS_TEXTURES[dl.i][1],
                                     LocalPath(SSS_TEXTURES[dl.i][2])>>)
                    ELSE @]
    /\ UNCHANGED serverVars

\* line 97: generate_js_object prints one line per entry, in dict order
Generate ==
    /\ dl.pc = "loop" /\ dl.i > Len(SSS_TEXTURES)
    /\ dl' = [dl EXCEPT !.pc = "done",
                !.printed = [k \in 1..Len(dl.local_texture_paths) |->
                               JsLine(dl.local_texture_paths[k])]]
    /\ UNCHANGED serverVars

NextDL ==
    \/ PathsOnlyStep
    \/ \E outcome \in Outcomes : DownloadStep(outcome)
    \/ Generate

SpecDL == InitDL /\ [][NextDL]_vars

\* ================================================================ claims
Keys(obj) == [i \in 1..Len(obj.v) |-> obj.v[i][1]]
IsEnvelope(result, up) ==
    /\ result.kind = "json"
    /\ result.body.t = "obj"
    /\ Keys(result.body) = <<"error", "details">>
    /\ Get(result.body, "details", None) = Text(up.text)
Answered(op) == last.op = op /\ last.up.exc = "none"
Succeeded(op) == Answered(op) /\ last.up.status = HTTP_OK
Failed(op) == Answered(op) /\ last.up.status # HTTP_OK

\* C1: sbdb_query answers an upstream 200 with exactly the parsed upstream
\* body and status 200, and any other upstream status with the envelope
\* {error, details = upstream text} under that same status.
C1_BodiesReply ==
    Answered("sbdb_query") =>
        IF last.up.status = HTTP_OK
        THEN \E d \in BodyDocs : last.up.text = Dump(d) /\ last.result = Json(d, HTTP_OK)
        ELSE IsEnvelope(last.result, last.up) /\ last.result.status = last.up.status
\* a 503 answered after an earlier success
C1_Witness ==
    /\ Failed("sbdb_query") /\ last.up.status = 503
    /\ last.result.status = 503
    /\ last.pre.sbdb_data # None

\* C2: on 200 sbdb_CA_query returns one record {des: row[0], cd: row[3],
\* dist: row[4]} per row of the upstream "data" array, in order, nothing
\* else in a record, and neoCA.json holds the list that is returned.
C2_Projection ==
    Succeeded("sbdb_CA_query") =>
        \A d \in CadDocs : last.up.text = Dump(d) =>
            LET rows == IF d = CadEmpty THEN <<>> ELSE d.v[2][2].v
                out == last.result.body
            IN /\ last.result.kind = "json" /\ last.result.status = HTTP_OK
               /\ out.t = "arr"
               /\ Len(out.v) = Len(rows)
               /\ \A i \in 1..Len(rows) :
                    out.v[i] = Obj(<< <<"des", rows[i].v[1]>>, <<"cd", rows[i].v[4]>>,
                                      <<"dist", rows[i].v[5]>> >>)
               /\ neoCA = File(Dump(out))
\* two different rows projected
C2_Witness ==
    /\ Succeeded("sbdb_CA_query")
    /\ Len(last.result.body.v) = 2
    /\ last.result.body.v[1] # last.result.body.v[2]
    /\ Get(last.result.body.v[1], "cd", None) = Str("2024-01-01")

\* C3: orrery called with the slot empty renders the content of neo20.json
\* when that is valid JSON, and otherwise (file missing or corrupt) returns
\* {"error": "No data available"} without an unhandled error.
C3_ViewFallback ==
    (last.op = "orrery" /\ last.pre.sbdb_data = None) =>
        IF last.pre.neo20.exists /\ (\E d \in JsonDocs : Dump(d) = last.pre.neo20.content)
        THEN \E d \in JsonDocs : /\ Dump(d) = last.pre.neo20.content
                                 /\ last.result = Page("orrery.html", d)
        ELSE last.result = Json(NoData, HTTP_OK)

\* C4: with handlers that do not overlap, a non-empty slot holds the body of
\* the most recent successful bodies fetch, and a handler never empties a
\* non-empty slot nor changes it except by a successful sbdb_query.
C4_SlotIsLatestFetch ==
    /\ sbdb_data # None => sbdb_data = fetched
    /\ (last.op \in {"sbdb_query", "sbdb_CA_query", "orrery"} /\ last.pre.sbdb_data # None) =>
          /\ sbdb_data # None
          /\ sbdb_data # last.pre.sbdb_data =>
                Succeeded("sbdb_query") /\ last.up.text = Dump(sbdb_data)
\* a failed fetch after a successful one: the slot keeps the earlier body
C4_Witness ==
    /\ Failed("sbdb_query")
    /\ sbdb_data # None
    /\ sbdb_data = fetched

\* C5: a query answered with a status other than 200 writes nothing: slot,
\* neo20.json and neoCA.json are as before, and the envelope is returned.
C5_FailureWritesNothing ==
    (Failed("sbdb_query") \/ Failed("sbdb_CA_query")) =>
        /\ sbdb_data = last.pre.sbdb_data
        /\ sbdb_CA_data = last.pre.sbdb_CA_data
        /\ neo20 = last.pre.neo20
        /\ neoCA = last.pre.neoCA
        /\ IsEnvelope(last.result, last.up)
\* a failed close-approach query with both cache files present
C5_Witness ==
    /\ Failed("sbdb_CA_query")
    /\ neoCA.exists /\ neoCA.content # <<>>
    /\ neo20.exists
    /\ sbdb_data # None

\* C6: after a successful query its cache file holds exactly the JSON text
\* of that fetch (nothing of the earlier content is left), and no other
\* handler changes the file; hence repeating a query changes nothing.
C6_FileIsLastFetch ==
    /\ Succeeded("sbdb_query") =>
          \E d \in BodyDocs : last.up.text = Dump(d) /\ neo20 = File(Dump(d))
    /\ Succeeded("sbdb_CA_query") => neoCA = File(Dump(last.result.body))
    /\ (last.op \in {"sbdb_query", "sbdb_CA_query", "orrery", "restart"}
        /\ ~Succeeded("sbdb_query")) => neo20 = last.pre.neo20
    /\ (last.op \in {"sbdb_query", "sbdb_CA_query", "orrery", "restart"}
        /\ ~Succeeded("sbdb_CA_query")) => neoCA = last.pre.neoCA
\* a shorter body written over a longer one
C6_Witness ==
    /\ Succeeded("sbdb_query")
    /\ last.pre.neo20.exists
    /\ Len(last.pre.neo20.content) > Len(neo20.content)

\* C7: when requests.get raises in sbdb_query (no HTTP response), the
\* handler returns the JSON envelope {error, details} instead of letting
\* the exception out, and leaves slot and file as they were.
C7_TransportEnvelope ==
    (last.op = "sbdb_query" /\ last.up.exc # "none") =>
        /\ last.result.kind = "json"
        /\ last.result.body.t = "obj"
        /\ Keys(last.result.body) = <<"error", "details">>
        /\ sbdb_data = last.pre.sbdb_data
        /\ neo20 = last.pre.neo20

C9_PathsOnly ==
    dl.paths_only =>
        /\ dl.requested = <<>>
        /\ dl.pc = "done" =>
              /\ Len(dl.printed) = Len(SSS_TEXTURES)
              /\ \A k \in 1..Len(SSS_TEXTURES) :
                    dl.printed[k] =
                      <<SSS_TEXTURES[k][1],
                        <<".", ".", "/", "t", "e", "x", "t", "u", "r", "e", "s", "/">> \o SSS_TEXTURES[k][2]>>
C9_Witness ==
    /\ dl.paths_only /\ dl.pc = "done"
    /\ Len(dl.printed) = Len(SSS_TEXTURES)
    /\ dl.printed[1][1] = "SUN"

\* C10: when two sbdb_query invocations with different 200 answers have
\* both finished (no orrery in between), the slot holds the answer of the
\* invocation that assigned it last and neo20.json holds the answer of the
\* invocation that wrote it last.
C10_LastWriteWins ==
    (/\ \A w \in QueryWorkers : th[w].pc = "done" /\ th[w].up.status = HTTP_OK
     /\ th["q1"].up # th["q2"].up
     /\ th[ViewWorker].pc = "idle") =>
        /\ Dump(sbdb_data) = th[wrote.slot].up.text
        /\ neo20 = File(th[wrote.file].up.text)

====
